---- MODULE Spec2Model ----
(***************************************************************************)
(* Conway's Game of Life on a bit-packed toroidal grid: a model of         *)
(* src/src/lib.rs (struct Universe and its methods).                        *)
(*                                                                         *)
(* Integer widths: width, height and the row/column arithmetic are u32 and *)
(* indices are usize in the source.  The largest grid of this model is the *)
(* 64x64 grid of new() (2^12 cells), so no u32/usize operation gets near   *)
(* its modulus here; grids with width * height >= 2^32, where the product  *)
(* panics in a debug build and wraps in a release build, are not modelled. *)
(* The arithmetic on the packed bytes is u8 and is kept modulo 2^8.        *)
(***************************************************************************)
EXTENDS Integers, Sequences, FiniteSets, TLC

\* ---------------------------------------------------------------- bounds
\* Largest width and largest height handed to from_cells (besides the calls
\* of the tests and of new()).
MaxDim == 3
\* Longest cell slice handed to from_cells (besides the test fixtures).
MaxCells == 9
\* Largest row shift and column shift a grid is translated by.
MaxShift == 1

\* ------------------------------------------------------------- enum Cell
Dead == 0
Alive == 1
Cell == {Dead, Alive}

\* The value an expression has when its evaluation panics (an index out of
\* the Vec's bounds, a remainder or a quotient by zero).
Panic == -1
\* The same for an expression whose value is a sequence or a pair.
PanicSeq == <<Panic>>

\* -------------------------------------------------------- u8 arithmetic
U8 == 256

RECURSIVE Pow2(_)
Pow2(n) == IF n = 0 THEN 1 ELSE 2 * Pow2(n - 1)

\* a << n on u8: the bits shifted past bit 7 are lost.
Shl(a, n) == (a * Pow2(n)) % U8

RECURSIVE BitOr(_, _)
BitOr(a, b) ==
    IF a = 0 THEN b
    ELSE IF b = 0 THEN a
    ELSE (IF a % 2 = 1 \/ b % 2 = 1 THEN 1 ELSE 0) + 2 * BitOr(a \div 2, b \div 2)

RECURSIVE BitAnd(_, _)
BitAnd(a, b) ==
    IF a = 0 \/ b = 0 THEN 0
    ELSE (IF a % 2 = 1 /\ b % 2 = 1 THEN 1 ELSE 0) + 2 * BitAnd(a \div 2, b \div 2)

\* ------------------------------------------------------------ the state
VARIABLES
    status,   \* "none": nothing constructed yet; "ok": a Universe exists;
              \* "panicked": the last call panicked
    width,    \* Universe.width
    height,   \* Universe.height
    cells,    \* Universe.cells: the packed bytes (cells[k + 1] is byte k)
    op,       \* the call that ran last
    arg,      \* the (width, height, cells) the Universe was built from, as
              \* long as no tick has replaced that generation
    prev,     \* the bytes the closures of the latest tick read: the
              \* generation before it (<<>> before the first tick)
    drawn,    \* the samples random() has returned so far, in call order
    ret       \* what the last call returned

vars == <<status, width, height, cells, op, arg, prev, drawn, ret>>

\* The Universe the methods run on.
self == [width |-> width, height |-> height, cells |-> cells]

\* ------------------------------------------------------- Universe::from_cells
\* chunk.iter().rev().fold(0, |byte, &cell| (byte << 1) | (cell as u8))
\* The fold without .rev(): the first cell of the chunk ends up in the
\* highest bit.
RECURSIVE pack_chunk_forward(_, _)
pack_chunk_forward(chunk, byte) ==
    IF chunk = <<>> THEN byte
    ELSE pack_chunk_forward(Tail(chunk), BitOr(Shl(byte, 1), Head(chunk)))

RECURSIVE pack_chunk(_, _)
pack_chunk(chunk, byte) ==
    IF chunk = <<>> THEN byte
    ELSE pack_chunk(SubSeq(chunk, 1, Len(chunk) - 1),
                    BitOr(Shl(byte, 1), chunk[Len(chunk)]))

\* cells.chunks(8): chunk k is cells[8k .. min(8k + 8, len)], the last one
\* may be shorter, and an empty slice has no chunk.
chunk8(cs, k) ==
    SubSeq(cs, 8 * k + 1, IF 8 * k + 8 < Len(cs) THEN 8 * k + 8 ELSE Len(cs))

pack(cs) == [k \in 1..((Len(cs) + 7) \div 8) |-> pack_chunk(chunk8(cs, k - 1), 0)]

\* ---------------------------------------------------- index arithmetic
\* row * self.height + column: the wrong stride.
get_index_by_height(u, row, column) == row * u.height + column

get_index(u, row, column) == row * u.width + column

get_row_column(u, index) ==
    IF u.width = 0 THEN PanicSeq
    ELSE <<index \div u.width, index % u.width>>

\* self.cells[byte] & (1 << bit) == 0; indexing past the Vec panics.
get_cell(u, index) ==
    LET byte == index \div 8
        bit == index % 8
    IN  IF byte >= Len(u.cells) THEN Panic
        ELSE IF BitAnd(u.cells[byte + 1], Shl(1, bit)) = 0 THEN Dead ELSE Alive

\* ------------------------------------------- Universe::live_neighbor_count
\* The nine (delta_row, delta_col) pairs in loop order; pair k is
\* ([height - 1, 0, 1][k / 3], [width - 1, 0, 1][k % 3]).
delta_rows(u) == <<u.height - 1, 0, 1>>
delta_cols(u) == <<u.width - 1, 0, 1>>

\* The iteration with a neighbor across the edge left out (no wrap-around):
\* delta height - 1 stands for -1, which leaves the grid from row 0, and
\* delta 1 leaves it from the last row; likewise for columns.
neighbor_term_no_wrap(u, row, column, delta_row, delta_col) ==
    IF delta_row = 0 /\ delta_col = 0 THEN 0
    ELSE IF \/ (delta_row = u.height - 1 /\ row = 0)
            \/ (delta_row = 1 /\ row = u.height - 1)
            \/ (delta_col = u.width - 1 /\ column = 0)
            \/ (delta_col = 1 /\ column = u.width - 1)
         THEN 0
         ELSE get_cell(u, get_index(u, (row + delta_row) % u.height,
                                       (column + delta_col) % u.width))

\* One iteration of the inner loop: what it adds to count (0 when the
\* iteration hits `continue`).
neighbor_term(u, row, column, delta_row, delta_col) ==
    IF delta_row = 0 /\ delta_col = 0 THEN 0
    ELSE LET neighbor_row == (row + delta_row) % u.height
             neighbor_col == (column + delta_col) % u.width
             idx == get_index(u, neighbor_row, neighbor_col)
         IN  get_cell(u, idx)

RECURSIVE neighbor_loop(_, _, _, _, _)
neighbor_loop(u, row, column, k, count) ==
    IF k = 9 THEN count
    ELSE LET t == neighbor_term(u, row, column,
                                delta_rows(u)[(k \div 3) + 1],
                                delta_cols(u)[(k % 3) + 1])
         IN  IF t = Panic THEN Panic
             ELSE neighbor_loop(u, row, column, k + 1, count + t)

\* height - 1 and width - 1 underflow, and % height and % width divide by
\* zero, when a dimension is 0.
live_neighbor_count(u, row, column) ==
    IF u.height = 0 \/ u.width = 0 THEN Panic
    ELSE neighbor_loop(u, row, column, 0, 0)

\* ----------------------------------------------------------- Universe::tick
\* match (self.get_cell(index), n) { (Alive, 2) | (_, 3) => Alive, _ => Dead }
\* The match with (_, 2) for (Cell::Alive, 2): a dead cell with two live
\* neighbors is born.
rule_born_on_two(cell, n) ==
    IF cell = Panic \/ n = Panic THEN Panic
    ELSE IF n = 2 \/ n = 3 THEN Alive ELSE Dead

\* The match with its two arms swapped.
rule_arms_swapped(cell, n) ==
    IF cell = Panic \/ n = Panic THEN Panic
    ELSE IF (cell = Alive /\ n = 2) \/ n = 3 THEN Dead ELSE Alive

\* The match with (Cell::Alive, _) for (Cell::Alive, 2): a live cell never
\* dies.
rule_alive_survives(cell, n) ==
    IF cell = Panic \/ n = Panic THEN Panic
    ELSE IF cell = Alive \/ n = 3 THEN Alive ELSE Dead

rule(cell, n) ==
    IF cell = Panic \/ n = Panic THEN Panic
    ELSE IF (cell = Alive /\ n = 2) \/ n = 3 THEN Alive ELSE Dead

\* The closure body of the inner fold for bit j of byte i: the next cell.
tick_cell(u, index) ==
    LET rc == get_row_column(u, index)
    IN  IF rc = PanicSeq THEN Panic
        ELSE rule(get_cell(u, index), live_neighbor_count(u, rc[1], rc[2]))

\* (0..8).fold(0, |acc, j| acc | ((cell as u8) << j))
\* The fold with (cell as u8) << (7 - j): most significant bit first.
RECURSIVE tick_byte_msb_first(_, _, _, _)
tick_byte_msb_first(u, i, j, acc) ==
    IF j = 8 THEN acc
    ELSE LET cell == tick_cell(u, i * 8 + j)
         IN  IF cell = Panic THEN Panic
             ELSE tick_byte_msb_first(u, i, j + 1, BitOr(acc, Shl(cell, 7 - j)))

\* The fold over the indices below width * height only: the unused bits of
\* the last byte stay 0.
RECURSIVE tick_byte_logical_only(_, _, _, _)
tick_byte_logical_only(u, i, j, acc) ==
    IF j = 8 \/ i * 8 + j >= u.width * u.height THEN acc
    ELSE LET cell == tick_cell(u, i * 8 + j)
         IN  IF cell = Panic THEN Panic
             ELSE tick_byte_logical_only(u, i, j + 1, BitOr(acc, Shl(cell, j)))

RECURSIVE tick_byte(_, _, _, _)
tick_byte(u, i, j, acc) ==
    IF j = 8 THEN acc
    ELSE LET cell == tick_cell(u, i * 8 + j)
         IN  IF cell = Panic THEN Panic
             ELSE tick_byte(u, i, j + 1, BitOr(acc, Shl(cell, j)))

\* len / 8 + 1: one byte too many when len is a multiple of 8.
byte_count_plus_one(u) == ((u.width * u.height) \div 8) + 1

\* len / 8: the partial last byte is dropped.
byte_count_floor(u) == (u.width * u.height) \div 8

\* Number of bytes tick and to_cells walk over: (len + 7) / 8.
byte_count(u) == ((u.width * u.height) + 7) \div 8

\* Some step of the two nested closures panics.
tick_panics(u) ==
    \E index \in 0..(8 * byte_count(u) - 1) : tick_cell(u, index) = Panic

tick_cells(u) == [k \in 1..byte_count(u) |-> tick_byte(u, k - 1, 0, 0)]

\* ------------------------------------------------------- Universe::to_cells
unpacked(u) == [k \in 1..(8 * byte_count(u)) |-> get_cell(u, k - 1)]

to_cells(u) ==
    IF \E index \in 0..(8 * byte_count(u) - 1) : get_cell(u, index) = Panic
    THEN PanicSeq
    ELSE SubSeq(unpacked(u), 1, u.width * u.height)

\* ------------------------------------------------- impl fmt::Display, render
AliveGlyph == 9724   \* U+25FC
DeadGlyph == 9723    \* U+25FB
Space == 32
Newline == 10

glyph(c) == IF c = Alive THEN AliveGlyph ELSE DeadGlyph

\* The inner loop from column col on: write!(f, "{} ", c) for each cell.
\* What the inner loop writes for the columns lo..hi-1 of a row, in column
\* order: write!(f, "{} ", c) for each.  The range is split in halves to
\* keep the evaluation shallow on the 64 columns of new().
RECURSIVE fmt_cols(_, _, _, _)
fmt_cols(u, row, lo, hi) ==
    IF lo >= hi THEN <<>>
    ELSE IF hi = lo + 1
         THEN <<glyph(get_cell(u, get_index(u, row, lo))), Space>>
         ELSE fmt_cols(u, row, lo, (lo + hi) \div 2)
              \o fmt_cols(u, row, (lo + hi) \div 2, hi)

\* The inner loop from column col on.
fmt_row(u, row, col) == fmt_cols(u, row, col, u.width)

\* What the outer loop writes for the rows lo..hi-1, in row order: the row's
\* cells, then writeln!(f, "").
RECURSIVE fmt_lines(_, _, _)
fmt_lines(u, lo, hi) ==
    IF lo >= hi THEN <<>>
    ELSE IF hi = lo + 1
         THEN fmt_row(u, lo, 0) \o <<Newline>>
         ELSE fmt_lines(u, lo, (lo + hi) \div 2)
              \o fmt_lines(u, (lo + hi) \div 2, hi)

\* The outer loop with write!(f, "") for writeln!(f, ""): no line ends.
RECURSIVE fmt_lines_no_newline(_, _, _)
fmt_lines_no_newline(u, lo, hi) ==
    IF lo >= hi THEN <<>>
    ELSE IF hi = lo + 1
         THEN fmt_row(u, lo, 0)
         ELSE fmt_lines_no_newline(u, lo, (lo + hi) \div 2)
              \o fmt_lines_no_newline(u, (lo + hi) \div 2, hi)

fmt_rows_no_newline(u, row) == fmt_lines_no_newline(u, row, u.height)

\* The outer loop from row row on.
fmt_rows(u, row) == fmt_lines(u, row, u.height)

\* to_string() panics when a get_cell of the loops does.
render(u) ==
    IF \E row \in 0..(u.height - 1), col \in 0..(u.width - 1) :
           get_cell(u, get_index(u, row, col)) = Panic
    THEN PanicSeq
    ELSE fmt_rows(u, 0)

\* ------------------------------------------- the indices get_cell is given
\* By one call of live_neighbor_count(row, column): idx of every iteration
\* that does not `continue`.
neighbor_indices(u, row, column) ==
    {get_index(u, (row + delta_rows(u)[(k \div 3) + 1]) % u.height,
                  (column + delta_cols(u)[(k % 3) + 1]) % u.width) :
        k \in {k \in 0..8 : ~(delta_rows(u)[(k \div 3) + 1] = 0
                                /\ delta_cols(u)[(k % 3) + 1] = 0)}}

\* By tick itself: index = i * 8 + j for every byte i and every j of 0..8.
tick_indices(u) == 0..(8 * byte_count(u) - 1)

\* By the live_neighbor_count calls of tick, one per index.
tick_neighbor_indices(u) ==
    UNION {neighbor_indices(u, get_row_column(u, index)[1],
                               get_row_column(u, index)[2]) :
           index \in tick_indices(u)}

\* By to_cells: i * 8 + j for every byte i and every j of 0..8, before the
\* truncate.
to_cells_indices(u) == 0..(8 * byte_count(u) - 1)

\* By fmt: get_index(row, col) for every row and column.
render_indices(u) ==
    {get_index(u, row, col) : row \in 0..(u.height - 1), col \in 0..(u.width - 1)}

\* ------------------------------------------------------------- the inputs
RECURSIVE CellSeqs(_)
CellSeqs(n) ==
    IF n = 0 THEN {<<>>}
    ELSE {Append(cs, c) : cs \in CellSeqs(n - 1), c \in Cell}

\* The grids of the tests (universe_displays_correctly, tick_rule_1,
\* tick_rule_2, tick_rules_3_and_4, tick_cells_on_edge), row by row.
D == Dead
A == Alive
Fixture4x4 ==
    <<D, D, D, D,
      D, D, D, A,
      D, D, A, A,
      D, A, A, A>>
FixtureRule1 ==
    <<D, D, D, D, D,
      D, D, D, D, D,
      D, D, A, D, D,
      D, D, D, D, D,
      D, D, D, D, D>>
FixtureRule2 ==
    <<D, D, D, D, D,
      D, D, D, D, D,
      D, A, A, D, D,
      D, A, A, D, D,
      D, D, D, D, D>>
FixtureRules3And4 ==
    <<D, D, D, D, D,
      D, D, A, D, D,
      D, A, A, A, D,
      D, D, A, D, D,
      D, D, D, D, D>>
FixtureOnEdge ==
    <<D, D, D, D, D,
      D, D, D, D, D,
      A, D, D, A, A,
      D, D, D, D, D,
      D, D, D, D, D>>
Fixtures ==
    {Fixture4x4, FixtureRule1, FixtureRule2, FixtureRules3And4, FixtureOnEdge}

\* The cell slices from_cells is called with.
Inputs == (UNION {CellSeqs(n) : n \in 0..MaxCells}) \cup Fixtures

NoArg == [width |-> 0, height |-> 0, cells |-> <<>>]

\* ------------------------------------------------------------ Universe::new
NewWidth == 64
NewHeight == 64

\* Math.random() returns a float of [0, 1): modelled in hundredths, 0..99.
\* The samples of one run of new() repeat one of these patterns; 49 and 50
\* are the two samples next to the threshold.
Half == 50
SamplePatterns == {<<0>>, <<99>>, <<49, 50>>, <<0, 49, 50, 99>>}

\* The i-th call of random() (i from 0) in a run that follows pattern.
random(pattern, i) == pattern[(i % Len(pattern)) + 1]

\* The samples the closure of new() draws: one call of random() per
\* element of 0..width * height, in order.
new_samples(pattern) ==
    [k \in 1..(NewWidth * NewHeight) |-> random(pattern, k - 1)]

\* The comparison with <= for <: a sample of exactly 0.5 gives Alive.
new_cells_at_most_half(pattern) ==
    [k \in 1..(NewWidth * NewHeight) |->
        IF random(pattern, k - 1) <= Half THEN Alive ELSE Dead]

\* (0..width * height).map(|i| if random() < 0.5 { Alive } else { Dead })
new_cells(pattern) ==
    [k \in 1..(NewWidth * NewHeight) |->
        IF random(pattern, k - 1) < Half THEN Alive ELSE Dead]

\* ------------------------------------------------------------ the actions
Init ==
    /\ status = "none"
    /\ width = 0
    /\ height = 0
    /\ cells = <<>>
    /\ op = "none"
    /\ arg = NoArg
    /\ prev = <<>>
    /\ drawn = <<>>
    /\ ret = <<>>

\* assert!((width * height) as usize <= cells.len()): a slice that is too
\* long passes.
from_cells_asserts_at_least(w, h, cs) == w * h <= Len(cs)

\* assert_eq!((width * height) as usize, cells.len())
from_cells_asserts(w, h, cs) == w * h = Len(cs)

\* Universe::from_cells(w, h, cs): the assert_eq! panics on a length
\* mismatch and nothing is built; otherwise the Universe holds the packed
\* bytes.
FromCells(w, h, cs) ==
    /\ op' = "from_cells"
    /\ arg' = [width |-> w, height |-> h, cells |-> cs]
    /\ ret' = <<>>
    /\ UNCHANGED prev
    /\ IF ~from_cells_asserts(w, h, cs)
       THEN /\ status' = "panicked"
            /\ UNCHANGED <<width, height, cells>>
       ELSE /\ status' = "ok"
            /\ width' = w
            /\ height' = h
            /\ cells' = pack(cs)

\* Universe::new(): from_cells(64, 64, &cells) of the sampled cells.
New ==
    /\ status = "none"
    /\ \E pattern \in SamplePatterns :
            /\ drawn' = new_samples(pattern)
            /\ FromCells(NewWidth, NewHeight, new_cells(pattern))

\* Universe::tick(&mut self): self.cells is replaced by the collected bytes,
\* unless computing one of them panics.
Tick ==
    /\ status = "ok"
    /\ op' = "tick"
    /\ ret' = <<>>
    /\ IF tick_panics(self)
       THEN /\ status' = "panicked"
            /\ UNCHANGED cells
       ELSE /\ status' = "ok"
            /\ cells' = tick_cells(self)
    /\ arg' = NoArg
    /\ prev' = cells
    /\ UNCHANGED <<width, height, drawn>>

\* Universe::to_cells(&self)
ToCells ==
    /\ status = "ok"
    /\ op' = "to_cells"
    /\ ret' = to_cells(self)
    /\ status' = IF ret' = PanicSeq THEN "panicked" ELSE "ok"
    /\ UNCHANGED <<width, height, cells, arg, prev, drawn>>

\* Universe::render(&self)
Render ==
    /\ status = "ok"
    /\ op' = "render"
    /\ ret' = render(self)
    /\ status' = IF ret' = PanicSeq THEN "panicked" ELSE "ok"
    /\ UNCHANGED <<width, height, cells, arg, prev, drawn>>

\* pub fn width(&self) -> u32 { self.height }: the wrong field.
Universe_width_swapped(u) == u.height

\* Universe::width(&self), Universe::height(&self)
Universe_width(u) == u.width
Universe_height(u) == u.height

\* Universe::cells(&self): the bytes at the pointer it returns.
Universe_cells(u) == u.cells

Width ==
    /\ status = "ok"
    /\ op' = "width"
    /\ ret' = Universe_width(self)
    /\ UNCHANGED <<status, width, height, cells, arg, prev, drawn>>

Height ==
    /\ status = "ok"
    /\ op' = "height"
    /\ ret' = Universe_height(self)
    /\ UNCHANGED <<status, width, height, cells, arg, prev, drawn>>

CellsPtr ==
    /\ status = "ok"
    /\ op' = "cells"
    /\ ret' = Universe_cells(self)
    /\ UNCHANGED <<status, width, height, cells, arg, prev, drawn>>

\* The width and height the tests hand to from_cells with a grid of theirs:
\* 4 with the 16 cells of universe_displays_correctly, 5 with the 25 cells of
\* the tick tests.
FixtureDim(cs) == IF Len(cs) = 16 THEN 4 ELSE 5

\* The one constructor call of a run: with any dimensions and any slice, or
\* the call of one of the tests.
Construct ==
    /\ status = "none"
    /\ \/ \E w \in 0..MaxDim, h \in 0..MaxDim, cs \in Inputs : FromCells(w, h, cs)
       \/ \E cs \in Fixtures : FromCells(FixtureDim(cs), FixtureDim(cs), cs)
    /\ UNCHANGED drawn

Next ==
    \/ New
    \/ Construct
    \/ Tick
    \/ ToCells
    \/ Render
    \/ Width
    \/ Height
    \/ CellsPtr

Spec == Init /\ [][Next]_vars

\* ===================================================== the properties
\* Bit k (0 = least significant) of byte b.
Bit(b, k) == (b \div Pow2(k)) % 2

\* The Universe the latest tick read.
before == [width |-> width, height |-> height, cells |-> prev]

\* The logical cells, by linear index.
Indices == 0..(width * height - 1)

\* The state is the one a tick of a grid with positive dimensions returned to.
AfterTick == op = "tick" /\ width >= 1 /\ height >= 1

\* C1: one tick sets every logical cell i to Alive iff (it was Alive and
\* n = 2) or n = 3, and to Dead otherwise, n being the live_neighbor_count of
\* (i / width, i % width) in the generation before the tick.
TickAppliesRule ==
    AfterTick =>
        /\ status = "ok"
        /\ \A i \in Indices :
            LET n == live_neighbor_count(before, i \div width, i % width)
                was == get_cell(before, i)
            IN  get_cell(self, i) =
                    IF (was = Alive /\ n = 2) \/ n = 3 THEN Alive ELSE Dead

\* The tick of the plus shape of tick_rules_3_and_4 (25 cells, not a multiple
\* of 8) has returned the ring the test expects: births and deaths happened.
TickAppliesRuleWitness ==
    /\ AfterTick
    /\ width = 5 /\ height = 5
    /\ to_cells(before) = FixtureRules3And4
    /\ to_cells(self) =
        <<D, D, D, D, D,
          D, A, A, A, D,
          D, A, D, A, D,
          D, A, A, A, D,
          D, D, D, D, D>>

\* C2: to_cells() of a Universe just built by from_cells(w, h, seq) returns
\* seq itself: same length, same order, same values.
RoundTrip ==
    (op = "to_cells" /\ arg # NoArg) => ret = arg.cells

\* A 3x3 round trip (9 cells, a partial second byte) of a slice that is not
\* a palindrome.
RoundTripWitness ==
    /\ op = "to_cells"
    /\ arg.width = 3 /\ arg.height = 3
    /\ arg.cells = <<A, A, D, D, D, D, D, D, A>>
    /\ ret = arg.cells

\* C3: logical cell i is bit i % 8, from the least significant, of byte i / 8,
\* in the buffer from_cells builds (the cell is the i-th of the slice) and in
\* the buffer tick builds (the cell is the one the closure computed for i),
\* and get_cell reads that bit back.
BitLayout ==
    /\ (op = "from_cells" /\ status = "ok") =>
            \A i \in Indices :
                /\ Bit(cells[(i \div 8) + 1], i % 8) = arg.cells[i + 1]
                /\ get_cell(self, i) = arg.cells[i + 1]
    /\ AfterTick =>
            \A i \in Indices :
                /\ Bit(cells[(i \div 8) + 1], i % 8) = tick_cell(before, i)
                /\ get_cell(self, i) = tick_cell(before, i)

\* The tick of tick_cells_on_edge has stored cells 9, 14 and 19: bits 1 and 6
\* of byte 1 and bit 3 of byte 2.
BitLayoutWitness ==
    /\ AfterTick
    /\ to_cells(before) = FixtureOnEdge
    /\ cells[2] = 66
    /\ cells[3] = 8

\* C4: the buffer is ceil(width * height / 8) bytes long in every state with
\* a Universe.
ceil8(n) == IF n % 8 = 0 THEN n \div 8 ELSE (n \div 8) + 1

CellsLength ==
    status = "ok" => Len(cells) = ceil8(width * height)

\* A 3x3 grid after a tick: 9 cells in 2 bytes.
CellsLengthWitness ==
    /\ status = "ok"
    /\ op = "tick"
    /\ width = 3 /\ height = 3
    /\ Len(cells) = 2

\* C5: live_neighbor_count(row, column) is the sum, over the 8 offsets
\* (dr, dc) of {-1, 0, 1} x {-1, 0, 1} other than (0, 0), of the 1/0 value of
\* cell ((row + dr) mod height, (column + dc) mod width), and is in 0..8.
LogicalCell(i) == Bit(cells[(i \div 8) + 1], i % 8)

Neighbor(row, column, dr, dc) ==
    LogicalCell(((row + dr + height) % height) * width
                + ((column + dc + width) % width))

ToroidalSum(row, column) ==
      Neighbor(row, column, -1, -1) + Neighbor(row, column, -1, 0)
    + Neighbor(row, column, -1, 1)  + Neighbor(row, column, 0, -1)
    + Neighbor(row, column, 0, 1)   + Neighbor(row, column, 1, -1)
    + Neighbor(row, column, 1, 0)   + Neighbor(row, column, 1, 1)

NeighborCountIsToroidalSum ==
    (status = "ok" /\ width >= 1 /\ height >= 1) =>
        \A row \in 0..(height - 1), column \in 0..(width - 1) :
            /\ live_neighbor_count(self, row, column) = ToroidalSum(row, column)
            /\ live_neighbor_count(self, row, column) \in 0..8

\* C6: a tick of a Universe with no live cell leaves it with no live cell.
AllDead(u) == \A i \in Indices : get_cell(u, i) = Dead

DeadStaysDead ==
    (AfterTick /\ AllDead(before)) => AllDead(self)

\* A 3x3 grid (7 unused bits in its second byte) that was all dead before the
\* tick.
DeadStaysDeadWitness ==
    /\ AfterTick
    /\ width = 3 /\ height = 3
    /\ AllDead(before)
    /\ status = "ok"

\* C7 as claimed: after a tick of a Universe whose only live cell is cell k,
\* cell k and every other cell are Dead, whatever the dimensions.
OnlyAlive(u, k) == \A i \in Indices : (get_cell(u, i) = Alive) <=> (i = k)

LoneCellLeavesAllDead ==
    \A k \in Indices :
        (AfterTick /\ OnlyAlive(before, k)) => AllDead(self)

\* C7 as amended: cell k is Dead after the tick whatever the dimensions, and
\* every other cell is Dead too unless the grid is one row or one column of
\* at least 3 cells.
LoneCellDies ==
    \A k \in Indices :
        (AfterTick /\ OnlyAlive(before, k)) =>
            /\ get_cell(self, k) = Dead
            /\ ((width >= 2 /\ height >= 2) \/ width * height <= 2)
                    => AllDead(self)

\* The lone cell of tick_rule_1 (5x5) has died, and so has the lone cell of a
\* grid in which it neighbors itself.
LoneCellDiesWitness ==
    /\ AfterTick
    /\ \/ to_cells(before) = FixtureRule1
       \/ width = 2 /\ height = 2 /\ OnlyAlive(before, 3)
    /\ AllDead(self)

\* In a 1x3 or 3x1 grid the two neighbors of the lone cell are born.
LoneCellInLineWitness ==
    /\ AfterTick
    /\ width * height = 3
    /\ OnlyAlive(before, 0)
    /\ to_cells(self) = <<D, A, A>>

\* C8: render() returns height lines in row order; line row is, for column
\* 0..width-1 in order, the glyph of cell (row, column) followed by one space,
\* and then a newline; nothing else is in the output.
LineLen == 2 * width + 1

RenderFormat ==
    (op = "render" /\ status = "ok") =>
        /\ Len(ret) = height * LineLen
        /\ \A row \in 0..(height - 1) :
            /\ ret[row * LineLen + LineLen] = Newline
            /\ \A column \in 0..(width - 1) :
                /\ ret[row * LineLen + 2 * column + 1] =
                       (IF get_cell(self, row * width + column) = Alive
                        THEN AliveGlyph ELSE DeadGlyph)
                /\ ret[row * LineLen + 2 * column + 2] = Space

\* The string universe_displays_correctly expects of its 4x4 grid.
H == DeadGlyph
F == AliveGlyph
S == Space
Fixture4x4Rendered ==
    <<H, S, H, S, H, S, H, S, Newline,
      H, S, H, S, H, S, F, S, Newline,
      H, S, H, S, F, S, F, S, Newline,
      H, S, F, S, F, S, F, S, Newline>>

RenderFormatWitness ==
    /\ op = "render"
    /\ arg.cells = Fixture4x4
    /\ ret = Fixture4x4Rendered

\* C9: from_cells(width, height, cells) panics exactly when the length of
\* cells is not width * height, and then no Universe exists.
FromCellsAsserts ==
    op = "from_cells" =>
        /\ (status = "panicked") <=> (Len(arg.cells) # arg.width * arg.height)
        /\ (status = "ok") <=> (Len(arg.cells) = arg.width * arg.height)
        /\ status = "panicked" => (width = 0 /\ height = 0 /\ cells = <<>>)
        /\ status = "ok" => (width = arg.width /\ height = arg.height)

\* A slice of 9 cells for a 3x2 grid: too long, and rejected.
FromCellsAssertsWitness ==
    /\ op = "from_cells"
    /\ status = "panicked"
    /\ arg.width = 3 /\ arg.height = 2
    /\ Len(arg.cells) = 9

\* C10: tick(), to_cells() and render() of a Universe with width >= 1 and
\* height >= 1 complete without a panic: no byte index is outside the buffer
\* and nothing is divided by zero.
NoPanic ==
    (op \in {"tick", "to_cells", "render"} /\ width >= 1 /\ height >= 1)
        => status = "ok"

\* to_cells() has returned the 9 cells of a 3x3 grid that a tick produced,
\* and the 16 cells of a 4x4 grid that fills its two bytes.
NoPanicWitness ==
    /\ op = "to_cells"
    /\ status = "ok"
    /\ prev # <<>>
    /\ width * height \in {9, 16}
    /\ Len(ret) = width * height

\* C11: width and height never change once the Universe exists: tick(),
\* render(), to_cells(), cells(), width() and height() leave them as they are,
\* width() and height() return them, and every call but tick() leaves the
\* buffer as it is.
ReadOps == {"render", "to_cells", "cells", "width", "height"}

DimensionsFixed ==
    [][status = "ok" =>
          /\ width' = width
          /\ height' = height
          /\ (op' \in ReadOps) => (cells' = cells)
          /\ (op' = "width") => (ret' = width)
          /\ (op' = "height") => (ret' = height)]_vars

\* width() has returned 2 for a 2x3 grid that has ticked.
DimensionsFixedWitness ==
    /\ op = "width"
    /\ status = "ok"
    /\ prev # <<>>
    /\ width = 2 /\ height = 3
    /\ ret = 2

\* C12: new() builds a 64x64 Universe from exactly 64 * 64 = 4096 samples,
\* and logical cell i is Alive iff the i-th sample is below 0.5.
AfterNew == op = "from_cells" /\ drawn # <<>>

NewSamplesCells ==
    AfterNew =>
        /\ status = "ok"
        /\ width = 64 /\ height = 64
        /\ Len(drawn) = 4096
        /\ \A i \in Indices : (get_cell(self, i) = Alive) <=> (drawn[i + 1] < 50)

\* new() has run on samples that alternate between 0.49 and 0.50, the two
\* values next to the threshold: cell 0 is Alive and cell 1 is Dead.
NewSamplesCellsWitness ==
    /\ AfterNew
    /\ drawn[1] = 49 /\ drawn[2] = 50
    /\ get_cell(self, 0) = Alive
    /\ get_cell(self, 1) = Dead

\* C13 as claimed: every index that tick, to_cells, live_neighbor_count and
\* render hand to get_cell is below width * height.
GetCellIndicesLogical ==
    (status = "ok" /\ width >= 1 /\ height >= 1) =>
        /\ op = "tick" =>
              \A i \in tick_indices(before) \cup tick_neighbor_indices(before) :
                  i < width * height
        /\ op = "to_cells" => \A i \in to_cells_indices(self) : i < width * height
        /\ op = "render" => \A i \in render_indices(self) : i < width * height

\* C13 as amended: live_neighbor_count and render hand get_cell only indices
\* below width * height; tick and to_cells hand it every index below
\* 8 * ceil(width * height / 8), so up to 7 indices at or above
\* width * height when that is not a multiple of 8, all inside the buffer.
GetCellIndicesInBuffer ==
    (width >= 1 /\ height >= 1) =>
        /\ op = "tick" =>
              /\ \A i \in tick_neighbor_indices(before) : i < width * height
              /\ tick_indices(before) = 0..(8 * ceil8(width * height) - 1)
              /\ \A i \in tick_indices(before) : i \div 8 < Len(prev)
        /\ op = "to_cells" =>
              /\ to_cells_indices(self) = 0..(8 * ceil8(width * height) - 1)
              /\ \A i \in to_cells_indices(self) : i \div 8 < Len(cells)
        /\ op = "render" => \A i \in render_indices(self) : i < width * height

\* A tick of a 3x3 grid has called get_cell(15): 15 >= 9, in byte 1 of 2.
GetCellIndicesInBufferWitness ==
    /\ op = "tick"
    /\ status = "ok"
    /\ width = 3 /\ height = 3
    /\ 15 \in tick_indices(before)
    /\ Len(prev) = 2

\* C14: get_row_column undoes get_index and get_index undoes
\* get_row_column: for every row < height and column < width,
\* get_row_column(get_index(row, column)) = (row, column), and for every
\* index < width * height, get_index(get_row_column(index)) = index with the
\* row below height and the column below width.
IndexInverse ==
    (status = "ok" /\ width >= 1 /\ height >= 1) =>
        /\ \A row \in 0..(height - 1), column \in 0..(width - 1) :
              get_row_column(self, get_index(self, row, column)) = <<row, column>>
        /\ \A index \in Indices :
              LET rc == get_row_column(self, index)
              IN  /\ rc[1] < height
                  /\ rc[2] < width
                  /\ get_index(self, rc[1], rc[2]) = index

\* A 2x3 grid (2 columns, 3 rows) that tick, which calls get_row_column, and
\* render, which calls get_index, have both walked.
IndexInverseWitness ==
    /\ op = "render"
    /\ status = "ok"
    /\ prev # <<>>
    /\ width = 2 /\ height = 3

\* C15: tick commutes with cyclic translation: translating every cell by
\* (dr, dc) modulo (height, width) and then ticking gives the logical cells
\* that ticking and then translating gives.
\* cs translated by (dr, dc): the cell of (row, column) goes to
\* ((row + dr) mod h, (column + dc) mod w).
Translated(cs, w, h, dr, dc) ==
    [k \in 1..(w * h) |->
        cs[((((k - 1) \div w) + h - dr) % h) * w
           + ((((k - 1) % w) + w - dc) % w) + 1]]

\* to_cells() after tick() of from_cells(w, h, cs).
Ticked(cs, w, h) ==
    to_cells([width |-> w, height |-> h,
              cells |-> tick_cells([width |-> w, height |-> h, cells |-> pack(cs)])])

\* The translations checked: by 0..MaxShift rows and columns, not both 0.
Shifts(n) == 0..(IF n - 1 < MaxShift THEN n - 1 ELSE MaxShift)

TickCommutesWithTranslation ==
    (AfterTick /\ status = "ok") =>
        \A dr \in Shifts(height), dc \in Shifts(width) :
            (dr # 0 \/ dc # 0) =>
                Ticked(Translated(to_cells(before), width, height, dr, dc),
                       width, height)
                = Translated(to_cells(self), width, height, dr, dc)

\* The tick of tick_cells_on_edge, whose live cells sit on both sides of the
\* column 4 / column 0 edge, and its translation by one column, which moves
\* them across it.
TickCommutesWithTranslationWitness ==
    /\ AfterTick
    /\ status = "ok"
    /\ to_cells(before) = FixtureOnEdge
    /\ Translated(to_cells(self), 5, 5, 0, 1) =
        <<D, D, D, D, D,
          A, D, D, D, D,
          A, D, D, D, D,
          A, D, D, D, D,
          D, D, D, D, D>>

\* C16 as claimed: in every state with a Universe the buffer is the packing
\* from_cells would produce for to_cells(): the unused bits of the last byte
\* are 0 after from_cells and after every tick.
UnusedIndices == (width * height)..(8 * Len(cells) - 1)

BufferCanonical ==
    status = "ok" =>
        /\ \A i \in UnusedIndices : Bit(cells[(i \div 8) + 1], i % 8) = 0
        /\ cells = pack(to_cells(self))

\* C16 as amended: the unused bits of the last byte are 0 after from_cells
\* (and new), where the buffer is the packing of to_cells(); a tick fills
\* unused bit i with the rule applied at (i / width, i % width), the row
\* taken modulo height by the neighbor count, so it can be 1; in every state
\* the buffer and the packing of to_cells() agree on the bits of the logical
\* cells.
\* The buffer with the unused bits of its last byte cleared.
LogicalBits ==
    [k \in 1..Len(cells) |->
        IF 8 * k <= width * height THEN cells[k]
        ELSE cells[k] % Pow2(width * height - 8 * (k - 1))]

UnusedBitsFollowRule ==
    status = "ok" =>
        /\ op = "from_cells" =>
              /\ \A i \in UnusedIndices : Bit(cells[(i \div 8) + 1], i % 8) = 0
              /\ cells = pack(to_cells(self))
        /\ AfterTick =>
              \A i \in UnusedIndices :
                  Bit(cells[(i \div 8) + 1], i % 8) = tick_cell(before, i)
        /\ pack(to_cells(self)) = LogicalBits

\* The tick of the 1x3 row [Dead, Dead, Alive] has left byte 219: the
\* logical cells are [Alive, Alive, Dead] and unused bits 3, 4, 6 and 7 are 1.
UnusedBitsFollowRuleWitness ==
    /\ AfterTick
    /\ status = "ok"
    /\ width = 3 /\ height = 1
    /\ prev = <<4>>
    /\ cells = <<219>>

====
